---- MODULE Spec2Model ----
(***************************************************************************)
(* Checkers engine (board.py, checker.py, game.py, ai.py): the board grid, *)
(* the recursive diagonal move generator, the mandatory-capture filter,    *)
(* the select / move command, the multi-capture chain driven by the        *)
(* animation callbacks, promotion, turn change and game-over detection.    *)
(*                                                                         *)
(* A Checker object is a number 1..Len(checkers); checkers[i] holds its    *)
(* fields.  None is 0.  A dict is a function, a list is a sequence.        *)
(***************************************************************************)
EXTENDS Integers, Sequences, FiniteSets, TLC

rows == 8
cols == 8
None == 0              \* None where a Checker is expected
NoColor == "None"      \* None where a colour is expected

\* Bounds of the exploration.
MaxMoves == 2

Max(a, b) == IF a > b THEN a ELSE b
Min(a, b) == IF a < b THEN a ELSE b

Cells == (0 .. rows - 1) \X (0 .. cols - 1)
EmptyDict == << >>

\* dict.update(other): the entries of other replace those of d.
update(d, other) ==
    [k \in (DOMAIN d) \cup (DOMAIN other) |->
        IF k \in DOMAIN other THEN other[k] ELSE d[k]]

\* any(d.values()): some value of the dict is a non-empty list.
any_values(d) == \E k \in DOMAIN d : d[k] # << >>

\* {k: v for k, v in d.items() if v}
only_captures(d) == [k \in {x \in DOMAIN d : d[x] # << >>} |-> d[k]]

other_color(color) == IF color = "white" THEN "black" ELSE "white"

(***************************************************************************)
(* Board                                                                   *)
(***************************************************************************)

\* Board.get_checker on grid b: None outside the 8x8 grid.
get_checker(b, row, col) ==
    IF 0 <= row /\ row < rows /\ 0 <= col /\ col < cols
    THEN b[<<row, col>>]
    ELSE None

\* Board.move without the clearing of the cell the checker leaves.
board_move_keep_origin(b, ck, checker, row, col) ==
    [b EXCEPT ![<<row, col>>] = checker]

\* Board.move: the grid after the move (clears the cell at the checker's
\* stored position, then stores the checker at the destination).
board_move(b, ck, checker, row, col) ==
    [[b EXCEPT ![<<ck[checker].row, ck[checker].col>>] = None]
        EXCEPT ![<<row, col>>] = checker]

\* Checker.move_to: the checker's stored position after the move.
move_to(ck, checker, row, col) ==
    [ck EXCEPT ![checker].row = row, ![checker].col = col]

\* Board.remove: clears, for each checker of the list in turn, the cell at
\* that checker's stored position.
RECURSIVE board_remove(_, _, _)
board_remove(b, ck, captured) ==
    IF captured = << >> THEN b
    ELSE board_remove(
            IF Head(captured) # None
            THEN [b EXCEPT ![<<ck[Head(captured)].row, ck[Head(captured)].col>>] = None]
            ELSE b,
            ck, Tail(captured))

\* The checkers held by the grid, and those of one colour.
on_grid(b) == {b[c] : c \in Cells} \ {None}
count_color(b, ck, color) == Cardinality({c \in Cells : b[c] # None /\ ck[b[c]].color = color})

\* winner that names a winner only when white has no piece.
winner_white_only(b, ck) ==
    IF count_color(b, ck, "white") = 0 THEN "black" ELSE NoColor

\* Board.winner: the colour that wins on piece count, or None.
winner(b, ck) ==
    IF count_color(b, ck, "white") = 0 THEN "black"
    ELSE IF count_color(b, ck, "black") = 0 THEN "white"
    ELSE NoColor

(***************************************************************************)
(* Game: move generation                                                   *)
(***************************************************************************)

\* The list objects made once for the skipped=[] defaults of _traverse_left
\* and _traverse_right, shared by every call that passes no skipped.
VARIABLE skipped_default

\* The defaults as the two def statements make them.
NoSkipped == [left |-> << >>, right |-> << >>]

\* stop row handed to the recursive scans from landing row r.
next_stop(r, step) == IF step = -1 THEN Max(r - 3, -1) ELSE Min(r + 3, rows)

\* A loop over the rows that does not end at stop.
in_range_unbounded(r, stop, step) == TRUE

\* r in range(start, stop, step), for the row r the loop has reached.
in_range(r, stop, step) == IF step = -1 THEN r > stop ELSE r < stop

RECURSIVE _traverse_left(_, _, _, _, _, _, _, _)
RECURSIVE _traverse_right(_, _, _, _, _, _, _, _)
RECURSIVE left_loop(_, _, _, _, _, _, _, _, _)
RECURSIVE right_loop(_, _, _, _, _, _, _, _, _)

\* The for loop of Game._traverse_left from row r on, with the loop's
\* locals left and last.
left_loop(b, ck, r, stop, step, color, left, skipped, last) ==
    IF ~in_range(r, stop, step) THEN EmptyDict
    ELSE IF left < 0 THEN EmptyDict
    ELSE LET current == get_checker(b, r, left) IN
        IF current = None
        THEN IF skipped # << >> /\ last = << >> THEN EmptyDict
             ELSE LET here == (<<r, left>> :> (last \o skipped))
                      row == next_stop(r, step)
                  IN  IF last # << >>
                      THEN update(update(here,
                              _traverse_left(b, ck, r + step, row, step, color, left - 1, last)),
                              _traverse_right(b, ck, r + step, row, step, color, left + 1, last))
                      ELSE here
        ELSE IF ck[current].color = color THEN EmptyDict
        ELSE left_loop(b, ck, r + step, stop, step, color, left - 1, skipped, <<current>>)

\* The for loop of Game._traverse_right.
right_loop(b, ck, r, stop, step, color, right, skipped, last) ==
    IF ~in_range(r, stop, step) THEN EmptyDict
    ELSE IF right >= cols THEN EmptyDict
    ELSE LET current == get_checker(b, r, right) IN
        IF current = None
        THEN IF skipped # << >> /\ last = << >> THEN EmptyDict
             ELSE LET here == (<<r, right>> :> (last \o skipped))
                      row == next_stop(r, step)
                  IN  IF last # << >>
                      THEN update(update(here,
                              _traverse_left(b, ck, r + step, row, step, color, right - 1, last)),
                              _traverse_right(b, ck, r + step, row, step, color, right + 1, last))
                      ELSE here
        ELSE IF ck[current].color = color THEN EmptyDict
        ELSE right_loop(b, ck, r + step, stop, step, color, right + 1, skipped, <<current>>)

_traverse_left(b, ck, start, stop, step, color, left, skipped) ==
    left_loop(b, ck, start, stop, step, color, left, skipped, << >>)

_traverse_right(b, ck, start, stop, step, color, right, skipped) ==
    right_loop(b, ck, start, stop, step, color, right, skipped, << >>)

\* The capture scan that looks up and down for every piece.
scan_captures_both_ways(b, ck, checker) ==
    update(update(update(
        _traverse_left(b, ck, ck[checker].row - 1, Max(ck[checker].row - 3, -1), -1,
                       ck[checker].color, ck[checker].col - 1, << >>),
        _traverse_right(b, ck, ck[checker].row - 1, Max(ck[checker].row - 3, -1), -1,
                        ck[checker].color, ck[checker].col + 1, << >>)),
        _traverse_left(b, ck, ck[checker].row + 1, Min(ck[checker].row + 3, rows), 1,
                       ck[checker].color, ck[checker].col - 1, << >>)),
        _traverse_right(b, ck, ck[checker].row + 1, Min(ck[checker].row + 3, rows), 1,
                        ck[checker].color, ck[checker].col + 1, << >>))

\* The capture scan of Game.get_valid_moves (the dict captures), given the
\* lists that the skipped=[] defaults of _traverse_left and _traverse_right
\* hold: its calls pass no skipped argument.
scan_captures_from(b, ck, checker, skipped) ==
    LET c     == ck[checker]
        left  == c.col - 1
        right == c.col + 1
        row   == c.row
        up    == IF c.color = "black" \/ c.is_king
                 THEN update(_traverse_left(b, ck, row - 1, Max(row - 3, -1), -1, c.color, left,
                                            skipped.left),
                             _traverse_right(b, ck, row - 1, Max(row - 3, -1), -1, c.color, right,
                                             skipped.right))
                 ELSE EmptyDict
    IN  IF c.color = "white" \/ c.is_king
        THEN update(update(up,
                _traverse_left(b, ck, row + 1, Min(row + 3, rows), 1, c.color, left,
                               skipped.left)),
                _traverse_right(b, ck, row + 1, Min(row + 3, rows), 1, c.color, right,
                                skipped.right))
        ELSE up

\* The capture scan in the interpreter's current state.
scan_captures(b, ck, checker) == scan_captures_from(b, ck, checker, skipped_default)

\* The regular moves without the test that the destination is empty.
regular_moves_occupied(b, ck, checker) ==
    LET c     == ck[checker]
        fwd(r) == {<<r, x>> : x \in {y \in {c.col - 1, c.col + 1} :
                      0 <= r /\ r < rows /\ 0 <= y /\ y < cols}}
        dests == (IF c.color = "black" \/ c.is_king THEN fwd(c.row - 1) ELSE {})
                 \cup (IF c.color = "white" \/ c.is_king THEN fwd(c.row + 1) ELSE {})
    IN  [d \in dests |-> << >>]

\* The regular (quiet) moves of Game.get_valid_moves.
regular_moves(b, ck, checker) ==
    LET c     == ck[checker]
        left  == c.col - 1
        right == c.col + 1
        row   == c.row
        fwd(r) == {<<r, x>> : x \in {y \in {left, right} :
                      /\ 0 <= r /\ r < rows /\ 0 <= y /\ y < cols
                      /\ get_checker(b, r, y) = None}}
        dests == (IF c.color = "black" \/ c.is_king THEN fwd(row - 1) ELSE {})
                 \cup (IF c.color = "white" \/ c.is_king THEN fwd(row + 1) ELSE {})
    IN  [d \in dests |-> << >>]

\* The return of Game.get_valid_moves, given the dict captures.
captures_or_regular(captures, b, ck, checker) ==
    IF any_values(captures) THEN only_captures(captures)
    ELSE regular_moves(b, ck, checker)

\* Game.get_valid_moves: { (row, col): [captured checkers] }.
get_valid_moves(b, ck, checker) ==
    captures_or_regular(scan_captures(b, ck, checker), b, ck, checker)

\* Game.get_all_valid_moves, the body of its loop for the checker of
\* (row, col) with moves = self.get_valid_moves(checker): the locals
\* all_moves and has_captures after it.
add_moves(all_moves, has_captures, row, col, moves) ==
    IF moves = EmptyDict
    THEN [all_moves |-> all_moves, has_captures |-> has_captures]
    ELSE IF has_captures \/ any_values(moves)
    THEN [all_moves |-> IF only_captures(moves) # EmptyDict
                        THEN update(all_moves, <<row, col>> :> only_captures(moves))
                        ELSE all_moves,
          has_captures |-> TRUE]
    ELSE [all_moves |-> update(all_moves, <<row, col>> :> moves), has_captures |-> FALSE]

\* Game.get_all_valid_moves, its scan of the grid in row-major order from
\* cell number i on; acc holds the locals all_moves and has_captures.
RECURSIVE all_moves_loop(_, _, _, _, _)
all_moves_loop(b, ck, color, i, acc) ==
    IF i >= rows * cols THEN acc
    ELSE IF get_checker(b, i \div cols, i % cols) # None
            /\ ck[get_checker(b, i \div cols, i % cols)].color = color
    THEN all_moves_loop(b, ck, color, i + 1,
            add_moves(acc.all_moves, acc.has_captures, i \div cols, i % cols,
                      get_valid_moves(b, ck, get_checker(b, i \div cols, i % cols))))
    ELSE all_moves_loop(b, ck, color, i + 1, acc)

\* get_all_valid_moves without its final filter.
filter_captures_unfiltered(res) ==
    res.all_moves

\* The return of Game.get_all_valid_moves: with captures, the entries
\* that hold one.
filter_captures(res) ==
    IF res.has_captures
    THEN [k \in {x \in DOMAIN res.all_moves : any_values(res.all_moves[x])}
             |-> res.all_moves[k]]
    ELSE res.all_moves

\* Game.get_all_valid_moves: { (row, col): { (row, col): [captured] } }.
get_all_valid_moves(b, ck, color) ==
    filter_captures(all_moves_loop(b, ck, color, 0,
                        [all_moves |-> EmptyDict, has_captures |-> FALSE]))

\* must_capture as Game.select computes it from get_all_valid_moves.
must_capture_of(all_moves) == \E k \in DOMAIN all_moves : any_values(all_moves[k])

(***************************************************************************)
(* Board's own move generator: Board.get_valid_moves with its              *)
(* _traverse_left and _traverse_right, which index the grid directly.  A   *)
(* result is the dict of moves with the set of <<row, col>> indices read.  *)
(***************************************************************************)

\* self.board[r][c]: a Python list index, which counts from the end when
\* negative and raises IndexError outside -8..7 (no value: None here).
grid_at(b, r, c) ==
    IF r \in -rows .. rows - 1 /\ c \in -cols .. cols - 1
    THEN b[<<r % rows, c % cols>>]
    ELSE None

NoMoves == [moves |-> EmptyDict, reads |-> {}]

\* The result a with the read of index i added.
with_read(a, i) == [a EXCEPT !.reads = a.reads \cup {i}]

\* moves.update(other), for results.
join(a, other) == [moves |-> update(a.moves, other.moves), reads |-> a.reads \cup other.reads]

\* A loop of _traverse_left that goes on left of column 0.
Board_left_break_never(left) == FALSE

\* if left < 0: break
Board_left_break(left) == left < 0

\* if right >= self.cols: break
Board_right_break(right) == right >= cols

RECURSIVE Board_traverse_left(_, _, _, _, _, _, _, _)
RECURSIVE Board_traverse_right(_, _, _, _, _, _, _, _)
RECURSIVE Board_left_loop(_, _, _, _, _, _, _, _, _)
RECURSIVE Board_right_loop(_, _, _, _, _, _, _, _, _)

\* The for loop of Board._traverse_left from row r on, with the loop's
\* locals left and last.
Board_left_loop(b, ck, r, stop, step, color, left, skipped, last) ==
    IF ~in_range(r, stop, step) THEN NoMoves
    ELSE IF Board_left_break(left) THEN NoMoves
    ELSE with_read(
        IF grid_at(b, r, left) = None
        THEN IF skipped # << >> /\ last = << >> THEN NoMoves
             ELSE IF last # << >>
             THEN join(join([moves |-> (<<r, left>> :> (last \o skipped)), reads |-> {}],
                     Board_traverse_left(b, ck, r + step, next_stop(r, step), step, color,
                                         left - 1, last)),
                     Board_traverse_right(b, ck, r + step, next_stop(r, step), step, color,
                                          left + 1, last))
             ELSE [moves |-> (<<r, left>> :> (last \o skipped)), reads |-> {}]
        ELSE IF ck[grid_at(b, r, left)].color = color THEN NoMoves
        ELSE Board_left_loop(b, ck, r + step, stop, step, color, left - 1, skipped,
                             <<grid_at(b, r, left)>>),
        <<r, left>>)

\* The for loop of Board._traverse_right.
Board_right_loop(b, ck, r, stop, step, color, right, skipped, last) ==
    IF ~in_range(r, stop, step) THEN NoMoves
    ELSE IF Board_right_break(right) THEN NoMoves
    ELSE with_read(
        IF grid_at(b, r, right) = None
        THEN IF skipped # << >> /\ last = << >> THEN NoMoves
             ELSE IF last # << >>
             THEN join(join([moves |-> (<<r, right>> :> (last \o skipped)), reads |-> {}],
                     Board_traverse_left(b, ck, r + step, next_stop(r, step), step, color,
                                         right - 1, last)),
                     Board_traverse_right(b, ck, r + step, next_stop(r, step), step, color,
                                          right + 1, last))
             ELSE [moves |-> (<<r, right>> :> (last \o skipped)), reads |-> {}]
        ELSE IF ck[grid_at(b, r, right)].color = color THEN NoMoves
        ELSE Board_right_loop(b, ck, r + step, stop, step, color, right + 1, skipped,
                              <<grid_at(b, r, right)>>),
        <<r, right>>)

Board_traverse_left(b, ck, start, stop, step, color, left, skipped) ==
    Board_left_loop(b, ck, start, stop, step, color, left, skipped, << >>)

Board_traverse_right(b, ck, start, stop, step, color, right, skipped) ==
    Board_right_loop(b, ck, start, stop, step, color, right, skipped, << >>)

\* The capture scan of Board.get_valid_moves.
Board_scan_captures(b, ck, checker) ==
    LET c     == ck[checker]
        left  == c.col - 1
        right == c.col + 1
        row   == c.row
        up    == IF c.color = "black" \/ c.is_king
                 THEN join(Board_traverse_left(b, ck, row - 1, Max(row - 3, -1), -1, c.color,
                                               left, << >>),
                           Board_traverse_right(b, ck, row - 1, Max(row - 3, -1), -1, c.color,
                                                right, << >>))
                 ELSE NoMoves
    IN  IF c.color = "white" \/ c.is_king
        THEN join(join(up,
                Board_traverse_left(b, ck, row + 1, Min(row + 3, rows), 1, c.color, left,
                                    << >>)),
                Board_traverse_right(b, ck, row + 1, Min(row + 3, rows), 1, c.color, right,
                                     << >>))
        ELSE up

\* The regular moves of Board.get_valid_moves: the indices its tests let
\* it read, and a move for each of them that holds no checker.
Board_regular_moves(b, ck, checker) ==
    LET c     == ck[checker]
        left  == c.col - 1
        right == c.col + 1
        row   == c.row
        up    == IF c.color = "black" \/ c.is_king
                 THEN (IF row - 1 >= 0 /\ left >= 0 THEN {<<row - 1, left>>} ELSE {})
                      \cup (IF row - 1 >= 0 /\ right < cols THEN {<<row - 1, right>>} ELSE {})
                 ELSE {}
        down  == IF c.color = "white" \/ c.is_king
                 THEN (IF row + 1 < rows /\ left >= 0 THEN {<<row + 1, left>>} ELSE {})
                      \cup (IF row + 1 < rows /\ right < cols THEN {<<row + 1, right>>} ELSE {})
                 ELSE {}
    IN  [moves |-> [d \in {x \in up \cup down : grid_at(b, x[1], x[2]) = None} |-> << >>],
         reads |-> up \cup down]

\* The return of Board.get_valid_moves, given the result of its capture
\* scan.
Board_captures_or_regular(captures, b, ck, checker) ==
    IF any_values(captures.moves)
    THEN [captures EXCEPT !.moves = only_captures(captures.moves)]
    ELSE [moves |-> Board_regular_moves(b, ck, checker).moves,
          reads |-> captures.reads \cup Board_regular_moves(b, ck, checker).reads]

\* Board.get_valid_moves.
Board_get_valid_moves(b, ck, checker) ==
    Board_captures_or_regular(Board_scan_captures(b, ck, checker), b, ck, checker)

(***************************************************************************)
(* AIPlayer                                                                *)
(***************************************************************************)
DIFFICULTY_EASY == 0
DIFFICULTY_MEDIUM == 1
DIFFICULTY_HARD == 2
NoneMove == << >>

\* all_moves without the entries that capture nothing.
flatten_captures(valid_moves) ==
    UNION {{<<s, e, valid_moves[s][e]>> : e \in {x \in DOMAIN valid_moves[s] :
                                                     valid_moves[s][x] # << >>}}
           : s \in DOMAIN valid_moves}

\* The flattened list all_moves of AIPlayer.get_move, as a set of
\* (start, end, captured) triples.
flatten(valid_moves) ==
    UNION {{<<s, e, valid_moves[s][e]>> : e \in DOMAIN valid_moves[s]} : s \in DOMAIN valid_moves}

max_len(ms) == CHOOSE n \in {Len(m[3]) : m \in ms} : \A m \in ms : Len(m[3]) <= n

\* Each get_*_move returns random.choice of a list: the set of the values
\* it can return.
get_easy_move(moves) == moves

\* get_medium_move that takes any capturing move, whatever its length.
get_medium_move_any_capture(moves, b, ck) ==
    IF {m \in moves : Len(m[3]) > 0} # {} THEN {m \in moves : Len(m[3]) > 0} ELSE moves

get_medium_move(moves, b, ck) ==
    LET capturing_moves == {m \in moves : Len(m[3]) > 0}
    IN  IF capturing_moves # {}
        THEN {m \in capturing_moves : Len(m[3]) = max_len(capturing_moves)}
        ELSE moves

\* get_hard_move without its preference for promotions.
get_hard_move_no_promotion(moves, b, ck) ==
    IF {m \in moves : Len(m[3]) > 0} # {}
    THEN {m \in moves : /\ Len(m[3]) > 0
                        /\ \A n \in moves : Len(n[3]) <= Len(m[3])}
    ELSE moves

get_hard_move(moves, b, ck) ==
    LET capturing_moves == {m \in moves : Len(m[3]) > 0}
        best_moves      == {m \in capturing_moves : Len(m[3]) = max_len(capturing_moves)}
        is_promoting(m) ==
            LET checker == get_checker(b, m[1][1], m[1][2])
            IN  /\ ~ck[checker].is_king
                /\ \/ ck[checker].color = "black" /\ m[2][1] = 0
                   \/ ck[checker].color = "white" /\ m[2][1] = rows - 1
        promoting_moves == {m \in best_moves : is_promoting(m)}
        is_forward(m) ==
            LET checker == get_checker(b, m[1][1], m[1][2])
            IN  /\ ~ck[checker].is_king
                /\ \/ ck[checker].color = "black" /\ m[2][1] < m[1][1]
                   \/ ck[checker].color = "white" /\ m[2][1] > m[1][1]
        promotion_moves == {m \in moves : is_forward(m)}
    IN  IF capturing_moves # {}
        THEN IF promoting_moves # {} THEN promoting_moves ELSE best_moves
        ELSE IF promotion_moves # {} THEN promotion_moves ELSE moves

\* AIPlayer.get_move: the set of values it can return; NoneMove stands for
\* the None it returns when the move set has no entry.  choose_move is its
\* body after the list all_moves is built.
choose_move(difficulty, b, ck, all_moves) ==
    IF all_moves = {} THEN {NoneMove}
    ELSE IF difficulty = DIFFICULTY_EASY THEN get_easy_move(all_moves)
    ELSE IF difficulty = DIFFICULTY_MEDIUM THEN get_medium_move(all_moves, b, ck)
    ELSE get_hard_move(all_moves, b, ck)

get_move(difficulty, b, ck, valid_moves) ==
    choose_move(difficulty, b, ck, flatten(valid_moves))


(***************************************************************************)
(* Game: the session.  A record g holds the fields of the Game object and  *)
(* of its Board and Checkers; every method maps g to the g it leaves.      *)
(* pc is the callback the running animation will call, "ai_move" when      *)
(* change_turn is about to call ai_move, "idle" between commands.          *)
(***************************************************************************)

\* Game._split_multi_capture: the steps of a multi-capture, from the first
\* captured checker of the list on, the checker standing at current.
RECURSIVE split_loop(_, _, _, _, _, _)
split_loop(ck, checker, current, target, captured, moves) ==
    IF captured = << >>
    THEN Append(moves, [checker |-> checker, from_pos |-> current,
                        to_pos |-> target, captured |-> << >>])
    ELSE split_loop(ck, checker,
            <<(current[1] + ck[Head(captured)].row) \div 2,
              (current[2] + ck[Head(captured)].col) \div 2>>,
            target, Tail(captured),
            Append(moves, [checker |-> checker, from_pos |-> current,
                           to_pos |-> <<(current[1] + ck[Head(captured)].row) \div 2,
                                        (current[2] + ck[Head(captured)].col) \div 2>>,
                           captured |-> <<Head(captured)>>]))

_split_multi_capture(ck, checker, target_row, target_col, captured) ==
    split_loop(ck, checker, <<ck[checker].row, ck[checker].col>>,
               <<target_row, target_col>>, captured, << >>)

\* The promotion test that looks at the last row for both colours.
promotes_last_row(ck, checker, row) ==
    row = rows - 1

\* The promotion test of _finish_multicapture and _on_single_move_complete.
promotes(ck, checker, row) ==
    \/ row = 0 /\ ck[checker].color = "black"
    \/ row = rows - 1 /\ ck[checker].color = "white"

\* The promotion that assigns the result of the test to is_king.
promote_assign(ck, checker, row) ==
    [ck EXCEPT ![checker].is_king = promotes(ck, checker, row)]

promote(ck, checker, row) ==
    IF promotes(ck, checker, row) THEN [ck EXCEPT ![checker].is_king = TRUE] ELSE ck

\* _check_game_over that looks at the moves of the side that just moved.
_check_game_over_mover(g) ==
    IF get_all_valid_moves(g.board, g.checkers, other_color(g.turn)) = EmptyDict
    THEN g.turn
    ELSE NoColor

\* Game._check_game_over: the winning colour when the side to move has no
\* valid move, else None.
_check_game_over(g) ==
    IF get_all_valid_moves(g.board, g.checkers, g.turn) = EmptyDict
    THEN other_color(g.turn)
    ELSE NoColor

\* a or b, for two colours or None.
or_color(a, b) == IF a # NoColor THEN a ELSE b

\* The winner of change_turn taken from the piece count alone.
change_turn_winner_count(g) == winner(g.board, g.checkers)

\* winner = self._check_game_over() or self.board.winner()
change_turn_winner(g) == or_color(_check_game_over(g), winner(g.board, g.checkers))

\* Game._draw_game_over: the winner it renders, self.board.winner(). On
\* None, winner.capitalize() raises AttributeError.
_draw_game_over(g) == winner(g.board, g.checkers)

\* Game.change_turn once the turn is flipped, with the local winner, up to
\* the call of ai_move.
check_winner(g, w) ==
    IF w # NoColor
    THEN [g EXCEPT !.game_over = TRUE, !.pc = "idle"]
    ELSE IF g.mode = "ai" /\ g.turn = "black" /\ ~g.game_over
    THEN [g EXCEPT !.pc = "ai_move"]
    ELSE [g EXCEPT !.pc = "idle"]

\* change_turn that clears the selection and leaves the turn as it is.
flip_turn_keep(g) ==
    [g EXCEPT !.selected = None, !.valid_moves = EmptyDict]

\* change_turn that flips the turn and clears selected, not valid_moves.
flip_turn_moves(g) ==
    [g EXCEPT !.selected = None, !.turn = other_color(g.turn)]

\* The first three lines of Game.change_turn.
flip_turn(g) ==
    [g EXCEPT !.selected = None, !.valid_moves = EmptyDict, !.turn = other_color(g.turn)]

\* Game.change_turn, up to its call of ai_move.
change_turn(g) == check_winner(flip_turn(g), change_turn_winner(flip_turn(g)))

\* One step of the chain applied to the board: remove, then move.
apply_step(g, move) ==
    [g EXCEPT !.board = board_move(
                            IF move.captured # << >>
                            THEN board_remove(g.board, g.checkers, move.captured)
                            ELSE g.board,
                            g.checkers, move.checker, move.to_pos[1], move.to_pos[2]),
              !.checkers = move_to(g.checkers, move.checker, move.to_pos[1], move.to_pos[2]),
              !.pc = "on_capture_animation_done"]

\* Game.process_next_capture: one step of the chain, up to the animation
\* whose end calls on_capture_animation_done.
process_next_capture(g) ==
    IF g.current_capture_index >= Len(g.multi_capture) THEN [g EXCEPT !.pc = "idle"]
    ELSE apply_step(g, g.multi_capture[g.current_capture_index + 1])

\* Game._finish_multicapture from its check for additional captures on;
\* g holds the promotion, moves = self.get_valid_moves(checker).
continue_or_turn(g, checker, moves) ==
    IF any_values(moves) /\ (g.checkers[checker].is_king \/ ~g.checkers[checker].is_king)
    THEN [g EXCEPT !.valid_moves = moves, !.selected = checker, !.pc = "idle"]
    ELSE change_turn([g EXCEPT !.valid_moves = moves])

\* Game._finish_multicapture up to the promotion.
finish_promote(g, checker) ==
    [g EXCEPT !.multi_capture = << >>, !.current_capture_index = 0,
              !.checkers = promote(g.checkers, checker, g.checkers[checker].row)]

\* _finish_multicapture that looks for additional captures before the
\* promotion.
_finish_multicapture_unpromoted(g) ==
    continue_or_turn(
        finish_promote(g, g.multi_capture[Len(g.multi_capture)].checker),
        g.multi_capture[Len(g.multi_capture)].checker,
        get_valid_moves(g.board, g.checkers,
            g.multi_capture[Len(g.multi_capture)].checker))

\* Game._finish_multicapture.
_finish_multicapture(g) ==
    continue_or_turn(
        finish_promote(g, g.multi_capture[Len(g.multi_capture)].checker),
        g.multi_capture[Len(g.multi_capture)].checker,
        get_valid_moves(g.board,
            finish_promote(g, g.multi_capture[Len(g.multi_capture)].checker).checkers,
            g.multi_capture[Len(g.multi_capture)].checker))

\* on_capture_animation_done that advances the index by two.
on_capture_animation_done_skip(g) ==
    IF g.current_capture_index + 2 < Len(g.multi_capture)
    THEN process_next_capture([g EXCEPT !.animating = FALSE,
                                  !.current_capture_index = g.current_capture_index + 2])
    ELSE _finish_multicapture([g EXCEPT !.animating = FALSE,
                                  !.current_capture_index = g.current_capture_index + 2])

\* Game.on_capture_animation_done, called as the animation ends
\* (animate_move has just set animating to False).
on_capture_animation_done(g) ==
    IF g.current_capture_index + 1 < Len(g.multi_capture)
    THEN process_next_capture([g EXCEPT !.animating = FALSE,
                                  !.current_capture_index = g.current_capture_index + 1])
    ELSE _finish_multicapture([g EXCEPT !.animating = FALSE,
                                  !.current_capture_index = g.current_capture_index + 1])

\* Game._execute_single_move, up to the animation whose end calls
\* _on_single_move_complete(checker, row, col).
_execute_single_move(g, checker, row, col, captured) ==
    [g EXCEPT !.board = board_move(
                            IF captured # << >>
                            THEN board_remove(g.board, g.checkers, captured)
                            ELSE g.board,
                            g.checkers, checker, row, col),
              !.checkers = move_to(g.checkers, checker, row, col),
              !.pc = "_on_single_move_complete",
              !.callback = <<checker, row, col>>]

\* Game._on_single_move_complete, called as the animation ends.
_on_single_move_complete(g, checker, row, col) ==
    change_turn([g EXCEPT !.animating = FALSE,
                          !.checkers = promote(g.checkers, checker, row),
                          !.callback = << >>])

\* Game.handle_move.
handle_move(g, row, col) ==
    IF Len(g.valid_moves[<<row, col>>]) > 1
    THEN process_next_capture(
            [g EXCEPT !.animating = TRUE,
                      !.multi_capture = _split_multi_capture(g.checkers, g.selected, row, col,
                                                             g.valid_moves[<<row, col>>]),
                      !.current_capture_index = 0])
    ELSE _execute_single_move([g EXCEPT !.animating = TRUE], g.selected, row, col,
                              g.valid_moves[<<row, col>>])

\* The branch of select for a checker of the side to move without the
\* mandatory-capture checks.
select_checker_any(g, must_capture, checker, checker_moves) ==
    [g |-> [g EXCEPT !.selected = checker, !.valid_moves = checker_moves], ret |-> TRUE]

\* Game.select, its branch for a checker of the side to move, with
\* checker_moves = self.get_valid_moves(checker).
select_checker(g, must_capture, checker, checker_moves) ==
    IF must_capture /\ ~any_values(checker_moves)
    THEN [g |-> g, ret |-> FALSE]
    ELSE IF must_capture
    THEN IF only_captures(checker_moves) = EmptyDict
         THEN [g |-> [g EXCEPT !.selected = None, !.valid_moves = EmptyDict], ret |-> FALSE]
         ELSE [g |-> [g EXCEPT !.selected = checker,
                               !.valid_moves = only_captures(checker_moves)],
               ret |-> TRUE]
    ELSE [g |-> [g EXCEPT !.selected = checker, !.valid_moves = checker_moves], ret |-> TRUE]

\* Whether select(row, col) takes the branch that selects a checker.
is_own(g, row, col) ==
    /\ get_checker(g.board, row, col) # None
    /\ g.checkers[get_checker(g.board, row, col)].color = g.turn
    /\ g.multi_capture = << >>

\* select without its test of game_over.
select_live(g, must_capture, row, col) ==
    IF g.animating THEN [g |-> g, ret |-> FALSE]
    ELSE IF is_own(g, row, col)
    THEN select_checker(g, must_capture, get_checker(g.board, row, col),
            get_valid_moves(g.board, g.checkers, get_checker(g.board, row, col)))
    ELSE IF g.selected # None /\ <<row, col>> \in DOMAIN g.valid_moves
    THEN IF must_capture /\ g.valid_moves[<<row, col>>] = << >>
         THEN [g |-> g, ret |-> FALSE]
         ELSE [g |-> handle_move(g, row, col), ret |-> TRUE]
    ELSE [g |-> [g EXCEPT !.selected = None, !.valid_moves = EmptyDict], ret |-> FALSE]

\* select whose last branch returns False and leaves the selection as it
\* is.
select_keep(g, must_capture, row, col) ==
    IF g.game_over \/ g.animating THEN [g |-> g, ret |-> FALSE]
    ELSE IF is_own(g, row, col)
    THEN select_checker(g, must_capture, get_checker(g.board, row, col),
            get_valid_moves(g.board, g.checkers, get_checker(g.board, row, col)))
    ELSE IF g.selected # None /\ <<row, col>> \in DOMAIN g.valid_moves
    THEN IF must_capture /\ g.valid_moves[<<row, col>>] = << >>
         THEN [g |-> g, ret |-> FALSE]
         ELSE [g |-> handle_move(g, row, col), ret |-> TRUE]
    ELSE [g |-> g, ret |-> FALSE]

\* select without the return True that follows handle_move: the call falls
\* through to the last branch.
select_fall_through(g, must_capture, row, col) ==
    IF g.game_over \/ g.animating THEN [g |-> g, ret |-> FALSE]
    ELSE IF is_own(g, row, col)
    THEN select_checker(g, must_capture, get_checker(g.board, row, col),
            get_valid_moves(g.board, g.checkers, get_checker(g.board, row, col)))
    ELSE IF g.selected # None /\ <<row, col>> \in DOMAIN g.valid_moves
    THEN IF must_capture /\ g.valid_moves[<<row, col>>] = << >>
         THEN [g |-> g, ret |-> FALSE]
         ELSE [g |-> [handle_move(g, row, col)
                         EXCEPT !.selected = None, !.valid_moves = EmptyDict],
               ret |-> FALSE]
    ELSE [g |-> [g EXCEPT !.selected = None, !.valid_moves = EmptyDict], ret |-> FALSE]

\* Game.select, with must_capture as it computes it from
\* self.get_all_valid_moves(self.turn): the state it leaves and the value
\* it returns.
select(g, must_capture, row, col) ==
    IF g.game_over \/ g.animating THEN [g |-> g, ret |-> FALSE]
    ELSE IF is_own(g, row, col)
    THEN select_checker(g, must_capture, get_checker(g.board, row, col),
            get_valid_moves(g.board, g.checkers, get_checker(g.board, row, col)))
    ELSE IF g.selected # None /\ <<row, col>> \in DOMAIN g.valid_moves
    THEN IF must_capture /\ g.valid_moves[<<row, col>>] = << >>
         THEN [g |-> g, ret |-> FALSE]
         ELSE [g |-> handle_move(g, row, col), ret |-> TRUE]
    ELSE [g |-> [g EXCEPT !.selected = None, !.valid_moves = EmptyDict], ret |-> FALSE]

\* Whether select(row, col) reaches handle_move.
select_moves(g, must_capture, row, col) ==
    /\ ~(g.game_over \/ g.animating)
    /\ ~is_own(g, row, col)
    /\ g.selected # None /\ <<row, col>> \in DOMAIN g.valid_moves
    /\ ~(must_capture /\ g.valid_moves[<<row, col>>] = << >>)

\* Game.ai_move after self.select(*start_pos) has left g.
ai_handle_move(g, move) ==
    IF g.selected # None
    THEN IF move[2] \in DOMAIN g.valid_moves
         THEN handle_move(g, move[2][1], move[2][2])
         ELSE [g EXCEPT !.pc = "KeyError"]
    ELSE g

\* Game.ai_move with ai_valid_moves and the move get_move returned.
ai_move(g, ai_valid_moves, move) ==
    IF g.mode # "ai" \/ g.game_over THEN [g EXCEPT !.pc = "idle"]
    ELSE IF ai_valid_moves = EmptyDict THEN change_turn(g)
    ELSE IF move = NoneMove THEN change_turn(g)
    ELSE ai_handle_move(
            select([g EXCEPT !.pc = "idle"],
                   must_capture_of(get_all_valid_moves(g.board, g.checkers, g.turn)),
                   move[1][1], move[1][2]).g,
            move)

(***************************************************************************)
(* Starting positions                                                      *)
(***************************************************************************)
Man(color, row, col) == [color |-> color, row |-> row, col |-> col, is_king |-> FALSE]
King(color, row, col) == [color |-> color, row |-> row, col |-> col, is_king |-> TRUE]

\* Board.create_board: the checkers of the standard setup, in the order
\* create_board makes them (row by row).
RECURSIVE create_board(_, _)
create_board(i, made) ==
    IF i >= rows * cols THEN made
    ELSE IF ((i \div cols) + (i % cols)) % 2 = 1 /\ i \div cols < 3
    THEN create_board(i + 1, Append(made, Man("white", i \div cols, i % cols)))
    ELSE IF ((i \div cols) + (i % cols)) % 2 = 1 /\ i \div cols > 4
    THEN create_board(i + 1, Append(made, Man("black", i \div cols, i % cols)))
    ELSE create_board(i + 1, made)

\* The grid that holds each checker of ps at its stored position.
grid_of(ps) ==
    [c \in Cells |->
        IF \E i \in 1 .. Len(ps) : <<ps[i].row, ps[i].col>> = c
        THEN CHOOSE i \in 1 .. Len(ps) : <<ps[i].row, ps[i].col>> = c
        ELSE None]

\* Positions the exploration starts from: the standard setup (white to
\* move, as Game.__init__ leaves it) and positions of later play.
Scenarios ==
    << [turn |-> "white", pieces |-> create_board(0, << >>)],
       \* three jumps up for the black man of (7,0), a black man on (4,1)
       [turn |-> "black", pieces |-> << Man("black", 7, 0), Man("white", 6, 1),
            Man("white", 4, 3), Man("white", 2, 3), Man("black", 4, 1) >>],
       \* two jumps down a straight line for the white man of (1,0)
       [turn |-> "white", pieces |-> << Man("white", 1, 0), Man("black", 2, 1),
            Man("black", 4, 3), Man("black", 7, 6) >>],
       \* two jumps up with a change of direction for the black man of (5,4)
       [turn |-> "black", pieces |-> << Man("black", 5, 4), Man("white", 4, 3),
            Man("white", 2, 3), Man("white", 0, 7) >>],
       \* white's only man is blocked once black plays (5,0)-(4,1)
       [turn |-> "black", pieces |-> << Man("white", 6, 7), Man("black", 7, 6),
            Man("black", 5, 0) >>],
       \* white captures black's last man
       [turn |-> "white", pieces |-> << Man("white", 2, 1), Man("black", 3, 2) >>],
       \* a king's double jump that lands beside a further capture
       [turn |-> "black", pieces |-> << King("black", 5, 2), Man("white", 4, 3),
            Man("white", 2, 3), Man("white", 2, 1) >>],
       \* both sides one step from promotion
       [turn |-> "white", pieces |-> << Man("white", 6, 3), Man("black", 1, 2) >> ],
       \* black reaches row 0 by a single jump from (2,5) or by two jumps
       \* from (4,1)
       [turn |-> "black", pieces |-> << Man("white", 1, 2), Man("white", 1, 6),
            Man("black", 2, 5), Man("white", 3, 2), Man("black", 4, 1),
            Man("white", 3, 6) >> ],
       \* two jumps take the black man of (4,3) to row 0, beside a capture
       \* that only a king can make
       [turn |-> "black", pieces |-> << Man("black", 4, 3), Man("white", 3, 4),
            Man("white", 1, 4), Man("white", 1, 2) >> ],
       \* a king's double jump that lands beside a further capture, while
       \* the black man of (7,6) has a capture too
       [turn |-> "black", pieces |-> << King("black", 5, 2), Man("white", 4, 3),
            Man("white", 2, 3), Man("white", 2, 1), Man("black", 7, 6),
            Man("white", 6, 5) >> ] >>

\* The cells a select command is given: every dark cell, two light cells
\* and four cells outside the grid.
Clicks ==
    {c \in Cells : (c[1] + c[2]) % 2 = 1}
    \cup {<<0, 0>>, <<3, 3>>}
    \cup {<<-1, 0>>, <<0, -1>>, <<rows, cols - 1>>, <<rows - 1, cols>>}

(***************************************************************************)
(* State                                                                   *)
(***************************************************************************)
VARIABLES
    board,                  \* Board.board: cell -> checker or None
    checkers,               \* the Checker objects: color, row, col, is_king
    turn, selected, valid_moves, game_over, animating,
    multi_capture, current_capture_index,
    mode, difficulty,
    pc, callback,           \* the pending callback and its arguments
    last,                   \* the last call: its arguments' kind and result,
                            \* and a bit that every call flips
    moves,                  \* number of handle_move calls so far
    executed,               \* the move handle_move last started
    result                  \* the last value a move generator returned

game_vars == <<board, checkers, turn, selected, valid_moves, game_over, animating,
               multi_capture, current_capture_index, mode, difficulty, pc, callback>>
vars == <<board, checkers, turn, selected, valid_moves, game_over, animating,
          multi_capture, current_capture_index, mode, difficulty, pc, callback,
          last, moves, executed, result, skipped_default>>

Self ==
    [board |-> board, checkers |-> checkers, turn |-> turn, selected |-> selected,
     valid_moves |-> valid_moves, game_over |-> game_over, animating |-> animating,
     multi_capture |-> multi_capture, current_capture_index |-> current_capture_index,
     mode |-> mode, difficulty |-> difficulty, pc |-> pc, callback |-> callback]

Commit(g) ==
    /\ board' = g.board
    /\ checkers' = g.checkers
    /\ turn' = g.turn
    /\ selected' = g.selected
    /\ valid_moves' = g.valid_moves
    /\ game_over' = g.game_over
    /\ animating' = g.animating
    /\ multi_capture' = g.multi_capture
    /\ current_capture_index' = g.current_capture_index
    /\ mode' = g.mode
    /\ difficulty' = g.difficulty
    /\ pc' = g.pc
    /\ callback' = g.callback

NoCall == [op |-> "init", ret |-> FALSE, target |-> None, key |-> FALSE, onboard |-> FALSE,
           had_selected |-> FALSE, tick |-> 0]
NoResult == [op |-> "none", color |-> NoColor, checker |-> None, value |-> << >>]
NoMove == [checker |-> None, from_pos |-> << >>, to_pos |-> << >>, captured |-> << >>,
           before |-> {}, was_king |-> FALSE, complete |-> FALSE]

\* The record of the move that handle_move(row, col) starts from g.
started(g, row, col) ==
    [checker |-> g.selected,
     from_pos |-> <<g.checkers[g.selected].row, g.checkers[g.selected].col>>,
     to_pos |-> <<row, col>>,
     captured |-> g.valid_moves[<<row, col>>],
     before |-> on_grid(g.board),
     was_king |-> g.checkers[g.selected].is_king,
     complete |-> FALSE]

\* Game.__init__ (mode and difficulty as main.py passes them), on one of
\* the starting positions.
Init ==
    \E s \in 1 .. Len(Scenarios), m \in {"local", "ai"},
       d \in {DIFFICULTY_EASY, DIFFICULTY_MEDIUM, DIFFICULTY_HARD} :
        /\ m = "local" => d = DIFFICULTY_MEDIUM
        /\ board = grid_of(Scenarios[s].pieces)
        /\ checkers = Scenarios[s].pieces
        /\ turn = Scenarios[s].turn
        /\ selected = None
        /\ valid_moves = EmptyDict
        /\ game_over = FALSE
        /\ animating = FALSE
        /\ multi_capture = << >>
        /\ current_capture_index = 0
        /\ mode = m
        /\ difficulty = d
        /\ pc = "idle"
        /\ callback = << >>
        /\ last = NoCall
        /\ moves = 0
        /\ executed = NoMove
        /\ result = NoResult
        /\ skipped_default = NoSkipped

\* The state and the history a call select(row, col) leaves: r is what
\* select returns, mv whether it reached handle_move.
SelectDone(r, mv, row, col) ==
    /\ Commit(r.g)
    /\ last' = [op |-> "select", ret |-> r.ret,
                target |-> get_checker(board, row, col),
                key |-> <<row, col>> \in DOMAIN valid_moves,
                onboard |-> <<row, col>> \in Cells,
                had_selected |-> selected # None,
                tick |-> 1 - last.tick]
    /\ moves' = IF mv THEN moves + 1 ELSE moves
    /\ executed' = IF mv THEN started(Self, row, col) ELSE executed
    /\ UNCHANGED <<result, skipped_default>>

SelectWith(must_capture) ==
    \E cell \in Clicks :
        SelectDone(select(Self, must_capture, cell[1], cell[2]),
                   select_moves(Self, must_capture, cell[1], cell[2]),
                   cell[1], cell[2])

\* A call of Game.select(row, col) between two commands.
Select ==
    /\ pc = "idle"
    /\ moves < MaxMoves
    /\ SelectWith(must_capture_of(get_all_valid_moves(board, checkers, turn)))

AiMoveDone(g, move) ==
    /\ Commit(g)
    /\ last' = [NoCall EXCEPT !.op = "ai_move", !.had_selected = selected # None,
                              !.tick = 1 - last.tick]
    /\ moves' = IF g.animating THEN moves + 1 ELSE moves
    /\ executed' = IF g.animating
                   THEN started([g EXCEPT !.board = board, !.checkers = checkers],
                                move[2][1], move[2][2])
                   ELSE executed
    /\ UNCHANGED <<result, skipped_default>>

AiMoveWith(ai_valid_moves) ==
    \E move \in (IF mode = "ai" /\ ~game_over
                 THEN get_move(difficulty, board, checkers, ai_valid_moves)
                 ELSE {NoneMove}) :
        AiMoveDone(ai_move(Self, ai_valid_moves, move), move)

\* A call of Game.ai_move(): by change_turn, by run() when it is black's
\* turn, or at a time when the call returns at once.
AiMove ==
    /\ \/ pc = "ai_move"
       \/ pc = "idle" /\ (turn = "black" \/ mode # "ai" \/ game_over)
    /\ moves < MaxMoves
    /\ AiMoveWith(IF mode = "ai" /\ ~game_over
                  THEN get_all_valid_moves(board, checkers, "black")
                  ELSE EmptyDict)

\* The animation of a chain step ends.
OnCaptureAnimationDone ==
    /\ pc = "on_capture_animation_done"
    /\ Commit(on_capture_animation_done(Self))
    /\ last' = [NoCall EXCEPT !.op = "on_capture_animation_done", !.tick = 1 - last.tick]
    /\ executed' = [executed EXCEPT
                       !.complete = (current_capture_index + 1 >= Len(multi_capture))]
    /\ UNCHANGED <<moves, result, skipped_default>>

\* The animation of a single move ends.
OnSingleMoveComplete ==
    /\ pc = "_on_single_move_complete"
    /\ Commit(_on_single_move_complete(Self, callback[1], callback[2], callback[3]))
    /\ last' = [NoCall EXCEPT !.op = "_on_single_move_complete", !.tick = 1 - last.tick]
    /\ executed' = [executed EXCEPT !.complete = TRUE]
    /\ UNCHANGED <<moves, result, skipped_default>>

Next ==
    \/ Select
    \/ AiMove
    \/ OnCaptureAnimationDone
    \/ OnSingleMoveComplete

Spec == Init /\ [][Next]_vars

\* The end of Game.animate_move: the callback it was given is called. It
\* is the step OnCaptureAnimationDone or OnSingleMoveComplete that pc
\* names, told by the call it records in last.
AnimationEnds ==
    /\ pc \in {"on_capture_animation_done", "_on_single_move_complete"}
    /\ last' = [NoCall EXCEPT !.op = pc, !.tick = 1 - last.tick]

\* The session with its animations running to their end: animate_move
\* runs the frames of an animation inside the call that started it, and
\* Checker.update reaches the target after finitely many frames, so the
\* callback of a started animation is always called.
SpecLive == Spec /\ WF_last(AnimationEnds)

(***************************************************************************)
(* The move generators on their own: get_all_valid_moves and               *)
(* get_valid_moves applied to every board of a bounded family.            *)
(***************************************************************************)
MaxPieces == 3

\* The dark cells of the 4x4 window whose top left cell is w.
window_cells(w) ==
    {c \in Cells : /\ (c[1] + c[2]) % 2 = 1
                   /\ c[1] \in w[1] .. w[1] + 3
                   /\ c[2] \in w[2] .. w[2] + 3}

\* The cells the family's pieces stand on: the dark cells around the centre.
ProbeCells == window_cells(<<2, 1>>)

\* The windows at the edges of the board: its top left and bottom right
\* corners.
Windows == {window_cells(<<0, 0>>), window_cells(<<4, 4>>)}

Kinds == [color : {"white", "black"}, is_king : BOOLEAN]

\* A man never stands on its promotion row: it was crowned on reaching it.
can_stand(kind, row) == kind.is_king \/ row # (IF kind.color = "black" THEN 0 ELSE rows - 1)

\* The Checker objects on the cells S, of the kinds f, in row-major order.
RECURSIVE pieces_on(_, _)
pieces_on(S, f) ==
    IF S = {} THEN << >>
    ELSE LET c == CHOOSE x \in S : \A y \in S : x[1] * cols + x[2] <= y[1] * cols + y[2]
         IN <<[color |-> f[c].color, row |-> c[1], col |-> c[2], is_king |-> f[c].is_king]>>
                \o pieces_on(S \ {c}, f)

\* Game.__init__ on the board that holds the pieces ps.
InitBoard(ps) ==
    /\ board = grid_of(ps)
    /\ checkers = ps
    /\ turn = "white"
    /\ selected = None
    /\ valid_moves = EmptyDict
    /\ game_over = FALSE
    /\ animating = FALSE
    /\ multi_capture = << >>
    /\ current_capture_index = 0
    /\ mode = "local"
    /\ difficulty = DIFFICULTY_MEDIUM
    /\ pc = "idle"
    /\ callback = << >>
    /\ last = NoCall
    /\ moves = 0
    /\ executed = NoMove
    /\ result = NoResult
    /\ skipped_default = NoSkipped

\* The boards of at most n pieces on the cells W.
InitWindow(W, n) ==
    \E S \in {T \in SUBSET W : Cardinality(T) <= n} :
        \E f \in [S -> Kinds] :
            /\ \A c \in S : can_stand(f[c], c[1])
            /\ InitBoard(pieces_on(S, f))

\* Every board of at most MaxPieces pieces on the probe cells, every board
\* of one piece less on the cells of a window at the edge, and the
\* starting positions.
InitMoves ==
    \/ InitWindow(ProbeCells, MaxPieces)
    \/ \E W \in Windows : InitWindow(W, MaxPieces - 1)
    \/ \E s \in 1 .. Len(Scenarios) : InitBoard(Scenarios[s].pieces)

\* A traversal that appends the list it built to the list it received.
skipped_after_append(skipped, captured) == skipped \o captured

\* What a call of _traverse_left or _traverse_right leaves in the list it
\* received as skipped, captured being a list it built (last): it tests
\* skipped and builds last + skipped, a new list, and never appends to
\* skipped.
skipped_after(skipped, captured) == skipped

\* The captured list of some capture that a piece of ps has, if any.
some_last(b, ck, ps) ==
    IF \E p \in ps : any_values(get_valid_moves(b, ck, p))
    THEN LET p == CHOOSE q \in ps : any_values(get_valid_moves(b, ck, q))
             m == get_valid_moves(b, ck, p)
         IN  m[CHOOSE d \in DOMAIN m : m[d] # << >>]
    ELSE << >>

\* The defaults of the two traversals after the scans for the pieces ps.
default_after(b, ck, ps) ==
    [left |-> skipped_after(skipped_default.left, some_last(b, ck, ps)),
     right |-> skipped_after(skipped_default.right, some_last(b, ck, ps))]

\* A call of Game.get_all_valid_moves(color) on the constructed board.
GetAllValidMoves ==
    /\ result = NoResult
    /\ \E color \in {"white", "black"} :
           /\ result' = [op |-> "get_all_valid_moves", color |-> color, checker |-> None,
                         value |-> get_all_valid_moves(board, checkers, color)]
           /\ skipped_default' = default_after(board, checkers,
                                     {p \in on_grid(board) : checkers[p].color = color})
    /\ UNCHANGED <<game_vars, last, moves, executed>>

\* A call of Game.get_valid_moves(checker) for a piece of the constructed
\* board.
GetValidMoves ==
    /\ result = NoResult
    /\ \E checker \in on_grid(board) :
           /\ result' = [op |-> "get_valid_moves", color |-> checkers[checker].color,
                         checker |-> checker,
                         value |-> get_valid_moves(board, checkers, checker)]
           /\ skipped_default' = default_after(board, checkers, {checker})
    /\ UNCHANGED <<game_vars, last, moves, executed>>

NextMoves ==
    \/ GetAllValidMoves
    \/ GetValidMoves

SpecMoves == InitMoves /\ [][NextMoves]_vars

(***************************************************************************)
(* Calls in sequence: AIPlayer.get_move, Board.winner and the move         *)
(* generators, called one after the other on a board of a bounded family.  *)
(***************************************************************************)

\* Positions with several captures of the same length for black.
Positions ==
    << \* a capture that promotes and one that does not
       << Man("white", 1, 2), Man("black", 2, 1), Man("white", 3, 4), Man("black", 4, 5) >>,
       \* a man and a king that both capture onto row 0
       << Man("white", 1, 2), Man("white", 1, 6), King("black", 2, 1), Man("black", 2, 5) >> >>

\* Every board of less than MaxPieces pieces on the cells of the top left
\* corner, the positions above and the starting positions.
InitCalls ==
    \/ InitWindow(window_cells(<<0, 0>>), MaxPieces - 1)
    \/ \E s \in 1 .. Len(Positions) : InitBoard(Positions[s])
    \/ \E s \in 1 .. Len(Scenarios) : InitBoard(Scenarios[s].pieces)

\* The dict get_move is given: the moves of the colour's pieces as
\* get_all_valid_moves returns them, or the dict that maps each piece of
\* the colour to its get_valid_moves, empty ones included.
piece_moves(b, ck, color) ==
    [c \in {c \in Cells : b[c] # None /\ ck[b[c]].color = color}
        |-> get_valid_moves(b, ck, b[c])]

move_sets(b, ck, color) == {get_all_valid_moves(b, ck, color), piece_moves(b, ck, color)}

\* get_move that selects the piece of the move it returns and removes the
\* move from the dict it was given.
get_move_effect_select(g, moves_arg, move) ==
    IF move = NoneMove THEN [g |-> g, valid_moves |-> moves_arg]
    ELSE [g |-> [g EXCEPT !.selected = get_checker(g.board, move[1][1], move[1][2])],
          valid_moves |-> [k \in DOMAIN moves_arg \ {move[1]} |-> moves_arg[k]]]

\* What AIPlayer.get_move leaves of the game and of the dict it was given,
\* move being the value it returns: it assigns locals only.
get_move_effect(g, moves_arg, move) == [g |-> g, valid_moves |-> moves_arg]

\* A call of AIPlayer(difficulty).get_move(board, valid_moves).  choices is
\* the set of the values random.choice can return in this call.
GetMoveWith(d, color, moves_arg) ==
    \E move \in get_move(d, board, checkers, moves_arg) :
        /\ Commit(get_move_effect(Self, moves_arg, move).g)
        /\ result' = [op |-> "get_move", color |-> color, checker |-> None,
                      value |-> [difficulty |-> d, valid_moves |-> moves_arg,
                                 after |-> get_move_effect(Self, moves_arg, move).valid_moves,
                                 choices |-> get_move(d, board, checkers, moves_arg),
                                 move |-> move]]

GetMove ==
    /\ result = NoResult
    /\ \E d \in {DIFFICULTY_EASY, DIFFICULTY_MEDIUM, DIFFICULTY_HARD},
          color \in {"white", "black"} :
           \E moves_arg \in move_sets(board, checkers, color) : GetMoveWith(d, color, moves_arg)
    /\ UNCHANGED <<last, moves, executed, skipped_default>>

\* A call of Board.winner().
BoardWinner ==
    /\ result = NoResult
    /\ result' = [op |-> "winner", color |-> NoColor, checker |-> None,
                  value |-> winner(board, checkers)]
    /\ UNCHANGED <<game_vars, last, moves, executed, skipped_default>>

\* The call has returned; its value is dropped.
Return ==
    /\ result # NoResult
    /\ result' = NoResult
    /\ last' = [NoCall EXCEPT !.op = "return"]
    /\ UNCHANGED <<game_vars, moves, executed, skipped_default>>

NextCalls ==
    \/ GetAllValidMoves
    \/ GetValidMoves
    \/ GetMove
    \/ BoardWinner
    \/ Return

SpecCalls == InitCalls /\ [][NextCalls]_vars

(***************************************************************************)
(* Board.get_valid_moves on its own.                                       *)
(***************************************************************************)

\* A call of Board.get_valid_moves(checker) for a piece of the constructed
\* board.
BoardGetValidMoves ==
    /\ result = NoResult
    /\ \E checker \in on_grid(board) :
           result' = [op |-> "Board.get_valid_moves", color |-> checkers[checker].color,
                      checker |-> checker,
                      value |-> Board_get_valid_moves(board, checkers, checker)]
    /\ UNCHANGED <<game_vars, last, moves, executed, skipped_default>>

\* Board.get_valid_moves applied to every board of the bounded family.
SpecBoard == InitMoves /\ [][BoardGetValidMoves]_vars

(***************************************************************************)
(* Properties.                                                             *)
(***************************************************************************)

\* The rule of the game for a single jump: an opposing piece stands on a
\* diagonal neighbour, in a direction the piece may move in, and the cell
\* behind it is an empty cell of the board.
capture_available(b, ck, p) ==
    \E dr \in {-1, 1}, dc \in {-1, 1} :
        /\ ck[p].is_king \/ dr = (IF ck[p].color = "black" THEN -1 ELSE 1)
        /\ <<ck[p].row + 2 * dr, ck[p].col + 2 * dc>> \in Cells
        /\ b[<<ck[p].row + 2 * dr, ck[p].col + 2 * dc>>] = None
        /\ b[<<ck[p].row + dr, ck[p].col + dc>>] # None
        /\ ck[b[<<ck[p].row + dr, ck[p].col + dc>>]].color # ck[p].color

\* Some piece of the colour on the grid has a capture available.
side_can_capture(b, ck, color) ==
    \E p \in on_grid(b) : ck[p].color = color /\ capture_available(b, ck, p)

\* C1. Mandatory capture: whenever some piece of colour C has a capture
\* available, every destination of every entry that
\* get_all_valid_moves(C) returns carries a non-empty captured list, and
\* every piece that appears in the result has a capture available (no
\* piece with only quiet moves appears).
C1_MandatoryCapture ==
    (result.op = "get_all_valid_moves" /\ side_can_capture(board, checkers, result.color))
    => \A k \in DOMAIN result.value :
           /\ \A d \in DOMAIN result.value[k] : result.value[k][d] # << >>
           /\ board[k] # None
           /\ checkers[board[k]].color = result.color
           /\ capture_available(board, checkers, board[k])

\* C1's case: a piece with only quiet moves is scanned before a piece of
\* its colour that has a capture, and the result is not empty.
C1_Witness ==
    /\ result.op = "get_all_valid_moves"
    /\ result.value # EmptyDict
    /\ \E p, q \in on_grid(board) :
           /\ checkers[p].color = result.color
           /\ checkers[q].color = result.color
           /\ q < p
           /\ capture_available(board, checkers, p)
           /\ ~capture_available(board, checkers, q)
           /\ regular_moves(board, checkers, q) # EmptyDict

\* The pieces that stood on the grid when the executed move started and
\* stand on it no more.
disappeared == executed.before \ on_grid(board)

\* The pieces of the captured list stored for the chosen destination.
listed == {executed.captured[i] : i \in 1 .. Len(executed.captured)}

\* C2. Chain conservation (count): once a multi-capture move chosen from
\* the selected piece's move map has been fully executed, the number of
\* pieces that have disappeared from the grid equals the length of the
\* captured list stored for the chosen destination, and every piece that
\* disappeared is in that list.
C2_ChainCount ==
    (executed.complete /\ Len(executed.captured) > 1)
    => /\ Cardinality(disappeared) = Len(executed.captured)
       /\ disappeared \subseteq listed

\* C3. Chain conservation (destination): once an accepted move, single or
\* multi-capture, has been fully executed, the moved piece stands on the
\* chosen destination cell and on no other cell, its stored row and col
\* are that cell, and the cell it started from is empty.
C3_ChainDestination ==
    executed.complete
    => /\ {c \in Cells : board[c] = executed.checker} = {executed.to_pos}
       /\ <<checkers[executed.checker].row, checkers[executed.checker].col>>
              = executed.to_pos
       /\ board[executed.from_pos] = None

\* C3's case: a chain of several steps has been executed to its end.
C3_Witness ==
    /\ executed.complete
    /\ Len(executed.captured) > 1
    /\ last.op = "on_capture_animation_done"

\* The pending callback is a chain step that is not the chain's last.
mid_chain ==
    pc = "on_capture_animation_done" /\ current_capture_index + 1 < Len(multi_capture)

\* The pending callback is the last step of a chain.
chain_end ==
    pc = "on_capture_animation_done" /\ current_capture_index + 1 >= Len(multi_capture)

\* C4. Turn conservation: the completion of a non-chained move flips the
\* side to move; the completion of a chain's last step flips it exactly
\* when the chain is fully resolved (the piece has no further capture);
\* the side to move never changes between two steps of a chain; and no
\* other step (a selection, the start of a move, a rejected call) changes
\* it.
C4_TurnConservation ==
    [][/\ pc = "_on_single_move_complete" => turn' = other_color(turn)
       /\ mid_chain => turn' = turn
       /\ chain_end =>
              (turn' = other_color(turn)
                   <=> ~capture_available(board', checkers', executed.checker))
       /\ chain_end => turn' \in {turn, other_color(turn)}
       /\ pc \in {"idle", "ai_move"} => turn' = turn]_vars

\* C4's case: the last step of a chain has completed and the turn has
\* passed to the other side.
C4_Witness ==
    /\ last.op = "on_capture_animation_done"
    /\ executed.complete
    /\ Len(executed.captured) > 1
    /\ turn = other_color(checkers[executed.checker].color)

\* The selection gate for the piece t: it is a piece of the side to move,
\* and no piece of that side has a capture available or t has one.
gate(t) ==
    /\ t # None
    /\ checkers[t].color = turn
    /\ ~side_can_capture(board, checkers, turn) \/ capture_available(board, checkers, t)

\* C5. Selection gate: when the game is not over and no chain is in
\* progress, select(row, col) returns True with the piece of that cell as
\* the selected piece if and only if the gate holds for it; when the cell
\* holds a piece of the side to move that has no capture while another
\* piece of the side has one, select returns False and changes no state.
C5_SelectionGate ==
    [][(last'.op = "select" /\ ~game_over /\ multi_capture = << >>)
       => /\ gate(last'.target) <=> (last'.target # None /\ selected' = last'.target)
          /\ gate(last'.target) => last'.ret
          /\ (/\ last'.target # None
              /\ checkers[last'.target].color = turn
              /\ ~gate(last'.target))
             => (~last'.ret /\ UNCHANGED game_vars)]_vars

\* C5's case: a piece of the side to move without a capture was clicked
\* while another piece of the side had one, and a piece was selected.
C5_Witness ==
    /\ last.op = "select"
    /\ ~last.ret
    /\ ~game_over
    /\ last.target # None
    /\ checkers[last.target].color = turn
    /\ side_can_capture(board, checkers, turn)
    /\ ~capture_available(board, checkers, last.target)
    /\ selected # None

\* Some colour has no piece on the grid.
side_wiped_out(b, ck) ==
    \E color \in {"white", "black"} : count_color(b, ck, color) = 0

\* C6. Termination detection: each time the turn passes to a colour,
\* game_over is true afterwards if and only if get_all_valid_moves is
\* empty for that colour or some colour has no piece on the board.
C6_TerminationDetection ==
    [][turn' # turn
       => (game_over' <=> \/ get_all_valid_moves(board', checkers', turn') = EmptyDict
                          \/ side_wiped_out(board', checkers'))]_vars

\* C6's case: the turn has passed to a colour whose last piece was just
\* captured, and the game is over.
C6_Witness ==
    /\ last.op = "_on_single_move_complete"
    /\ game_over
    /\ count_color(board, checkers, turn) = 0
    /\ count_color(board, checkers, other_color(turn)) > 0

\* C7. Winner on blockade: when the game is over and the side to move
\* still has pieces but no valid move, the winner the session reports
\* (the one _draw_game_over renders) is the opposing colour.
C7_BlockadeWinner ==
    (/\ game_over
     /\ count_color(board, checkers, turn) > 0
     /\ get_all_valid_moves(board, checkers, turn) = EmptyDict)
    => _draw_game_over(Self) = other_color(turn)

\* C8. GameOver is terminal: once game_over is true it stays true, every
\* later select returns False, and no later call (select or ai_move)
\* changes the board, the pieces, the turn, the selection or the move
\* map.
C8_GameOverTerminal ==
    [][game_over
       => /\ game_over'
          /\ last'.op = "select" => ~last'.ret
          /\ UNCHANGED <<board, checkers, turn, selected, valid_moves>>]_vars

\* C8's case: after the game has ended, a piece of the side to move was
\* clicked.
C8_Witness ==
    /\ game_over
    /\ last.op = "select"
    /\ last.target # None
    /\ checkers[last.target].color = turn

\* The call is select(row, col), made with a piece selected, for a cell
\* that is neither a piece of the side to move nor a key of the move map.
invalid_destination ==
    /\ last'.op = "select"
    /\ selected # None
    /\ ~last'.key
    /\ last'.target = None \/ checkers[last'.target].color # turn

\* C9 as stated. Rejected destination keeps the selection: such a call
\* returns False and the selected piece and its move map are the same
\* after it as before.
C9_RejectedKeepsSelection ==
    [][invalid_destination
       => (~last'.ret /\ selected' = selected /\ valid_moves' = valid_moves)]_vars

\* C9 amended. Rejected destination clears the selection: such a call
\* returns False, leaves no piece selected and an empty move map, and
\* changes neither the board nor the pieces, the turn or game_over.
C9_RejectedClearsSelection ==
    [][invalid_destination
       => /\ ~last'.ret
          /\ selected' = None
          /\ valid_moves' = EmptyDict
          /\ UNCHANGED <<board, checkers, turn, game_over>>]_vars

\* C9's case: with a piece selected, an opponent's piece was clicked.
C9_Witness ==
    /\ last.op = "select"
    /\ last.had_selected
    /\ ~last.key
    /\ last.target # None
    /\ checkers[last.target].color # turn
    /\ ~last.ret
    /\ selected = None

\* C10. Rejected commands do not touch the game: a select call that
\* returns False leaves the grid, every piece's position, colour and king
\* flag, the side to move and game_over unchanged, for cells of the grid
\* and cells outside it.
C10_RejectedSelectKeepsGame ==
    [][(last'.op = "select" /\ ~last'.ret)
       => UNCHANGED <<board, checkers, turn, game_over>>]_vars

\* C10's case: with a piece selected, a cell outside the grid was clicked
\* and select returned False.
C10_Witness ==
    /\ last.op = "select"
    /\ ~last.ret
    /\ ~last.onboard
    /\ last.had_selected

\* The row on which a man of the colour is crowned.
farthest_row(color) == IF color = "black" THEN 0 ELSE rows - 1

\* The piece p stands on the farthest row for its colour.
on_farthest_row(p) == checkers[p].row = farthest_row(checkers[p].color)

\* C11. Promotion: when an accepted move (quiet move, single capture or
\* whole chain) has completed with the moved piece on the farthest row for
\* its colour, the piece is a king; and in every state between commands
\* no man of the grid stands on the farthest row for its colour.
C11_Promotion ==
    /\ (executed.complete /\ on_farthest_row(executed.checker))
       => checkers[executed.checker].is_king
    /\ pc \in {"idle", "ai_move"}
       => \A p \in on_grid(board) : on_farthest_row(p) => checkers[p].is_king

\* C11's case: a man has completed a capture chain on the farthest row and
\* is a king.
C11_Witness ==
    /\ executed.complete
    /\ Len(executed.captured) > 1
    /\ ~executed.was_king
    /\ on_farthest_row(executed.checker)
    /\ checkers[executed.checker].is_king

\* C12. Promotion idempotence: a piece that is a king is a king after
\* every step, and the promotion check applied to a king, on whatever row,
\* leaves every piece as it is.
C12_PromotionIdempotence ==
    [][/\ \A p \in DOMAIN checkers : checkers[p].is_king => checkers'[p].is_king
       /\ \A p \in DOMAIN checkers :
              checkers[p].is_king
              => \A row \in 0 .. rows - 1 : promote(checkers, p, row) = checkers]_vars

\* C12's case: a piece that was a king when its move started has
\* completed the move, so the promotion check was applied to it.
C12_Witness ==
    /\ executed.complete
    /\ executed.was_king
    /\ checkers[executed.checker].is_king

\* In the direction (dr, dc) the cell next to the piece p holds an
\* opposing piece and the cell behind that one is an empty cell of the
\* board.
can_jump(b, ck, p, dr, dc) ==
    /\ <<ck[p].row + 2 * dr, ck[p].col + 2 * dc>> \in Cells
    /\ b[<<ck[p].row + 2 * dr, ck[p].col + 2 * dc>>] = None
    /\ b[<<ck[p].row + dr, ck[p].col + dc>>] # None
    /\ ck[b[<<ck[p].row + dr, ck[p].col + dc>>]].color # ck[p].color

\* The row r is strictly forward of the piece p.
forward_of(p, r) ==
    IF checkers[p].color = "black" THEN r < checkers[p].row ELSE r > checkers[p].row

\* C13. Capture symmetry: for a man, every capture entry of
\* get_valid_moves has its destination and all its captured pieces in rows
\* strictly forward of the man; for a king, in each of the four diagonal
\* directions in which it can jump, the landing cell is an entry whose
\* captured list is the one piece jumped.
C13_CaptureSymmetry ==
    result.op = "get_valid_moves"
    => /\ ~checkers[result.checker].is_king
          => \A d \in DOMAIN result.value :
                 result.value[d] # << >>
                 => /\ forward_of(result.checker, d[1])
                    /\ \A i \in 1 .. Len(result.value[d]) :
                           forward_of(result.checker, checkers[result.value[d][i]].row)
       /\ checkers[result.checker].is_king
          => \A dr \in {-1, 1}, dc \in {-1, 1} :
                 can_jump(board, checkers, result.checker, dr, dc)
                 => /\ <<checkers[result.checker].row + 2 * dr,
                         checkers[result.checker].col + 2 * dc>> \in DOMAIN result.value
                    /\ result.value[<<checkers[result.checker].row + 2 * dr,
                                      checkers[result.checker].col + 2 * dc>>]
                           = <<board[<<checkers[result.checker].row + dr,
                                       checkers[result.checker].col + dc>>]>>

\* C13's case: get_valid_moves was called for a king that can jump both
\* upwards and downwards.
C13_Witness ==
    /\ result.op = "get_valid_moves"
    /\ checkers[result.checker].is_king
    /\ \E dc \in {-1, 1} : can_jump(board, checkers, result.checker, -1, dc)
    /\ \E dc \in {-1, 1} : can_jump(board, checkers, result.checker, 1, dc)

\* The vertical directions the piece p may move in.
directions(p) ==
    IF checkers[p].is_king THEN {-1, 1}
    ELSE IF checkers[p].color = "black" THEN {-1} ELSE {1}

\* The empty cells of the board diagonally next to the piece p in its
\* allowed directions.
quiet_cells(p) ==
    {c \in Cells : /\ c[1] - checkers[p].row \in directions(p)
                   /\ c[2] - checkers[p].col \in {-1, 1}
                   /\ board[c] = None}

\* The piece get_valid_moves was called for stands on the cell c of the
\* initial setup.
initial_piece_at(c) ==
    /\ checkers = create_board(0, << >>)
    /\ <<checkers[result.checker].row, checkers[result.checker].col>> = c

\* C14. Quiet moves: for a piece without a capture, get_valid_moves
\* returns exactly the empty on-board cells diagonally next to it in its
\* allowed directions, each with an empty captured list; on the initial
\* setup the black man of (5,0) gets (4,1) only and the white man of (2,1)
\* gets (3,0) and (3,2).
C14_QuietMoves ==
    result.op = "get_valid_moves"
    => /\ ~capture_available(board, checkers, result.checker)
          => /\ DOMAIN result.value = quiet_cells(result.checker)
             /\ \A d \in DOMAIN result.value : result.value[d] = << >>
       /\ initial_piece_at(<<5, 0>>) => DOMAIN result.value = {<<4, 1>>}
       /\ initial_piece_at(<<2, 1>>) => DOMAIN result.value = {<<3, 0>>, <<3, 2>>}

\* C14's case: get_valid_moves was called for the black man of (5,0) on
\* the initial setup.
C14_Witness ==
    /\ result.op = "get_valid_moves"
    /\ initial_piece_at(<<5, 0>>)
    /\ checkers[result.checker].color = "black"
    /\ ~capture_available(board, checkers, result.checker)

\* After the jump of the king p in the direction (dr, dc), an opposing
\* piece other than the one jumped stands next to the landing cell in the
\* opposite vertical direction, with an empty cell of the board beyond it.
can_jump_back(b, ck, p, dr, dc) ==
    /\ can_jump(b, ck, p, dr, dc)
    /\ <<ck[p].row, ck[p].col + 4 * dc>> \in Cells
    /\ b[<<ck[p].row, ck[p].col + 4 * dc>>] = None
    /\ b[<<ck[p].row + dr, ck[p].col + 3 * dc>>] # None
    /\ ck[b[<<ck[p].row + dr, ck[p].col + 3 * dc>>]].color # ck[p].color

\* C15. King rescan in all directions: when get_valid_moves is called for
\* a king and, after a first jump, an opposing piece is diagonally adjacent
\* to the landing cell in the opposite vertical direction with an empty
\* cell of the board beyond it, the result contains that second landing
\* cell with a captured list of two pieces.
C15_KingRescan ==
    (result.op = "get_valid_moves" /\ checkers[result.checker].is_king)
    => \A dr \in {-1, 1}, dc \in {-1, 1} :
           can_jump_back(board, checkers, result.checker, dr, dc)
           => /\ <<checkers[result.checker].row,
                   checkers[result.checker].col + 4 * dc>> \in DOMAIN result.value
              /\ Len(result.value[<<checkers[result.checker].row,
                                    checkers[result.checker].col + 4 * dc>>]) = 2

\* The number of jumps that bring the piece p to the row r: every jump
\* crosses two rows, and a path never turns back.
jumps_to(p, r) ==
    (IF r > checkers[p].row THEN r - checkers[p].row ELSE checkers[p].row - r) \div 2

\* C16. Capture accumulation: for every capture entry of
\* get_valid_moves(piece), the length of the captured list is the number
\* of jumps of the path from the piece's cell to the destination, so a
\* path of three jumps yields a list of three pieces.
C16_CaptureAccumulation ==
    result.op = "get_valid_moves"
    => \A d \in DOMAIN result.value :
           result.value[d] # << >>
           => Len(result.value[d]) = jumps_to(result.checker, d[1])

\* C17. Light squares are always empty: in every reachable state, the
\* states between two steps of a multi-capture chain included, no cell
\* with (row + col) even holds a piece.
C17_LightSquaresEmpty ==
    \A c \in Cells : (c[1] + c[2]) % 2 = 0 => board[c] = None

\* The piece p is held by the cell of its stored row and col.
held_at_stored(p) ==
    /\ <<checkers[p].row, checkers[p].col>> \in Cells
    /\ board[<<checkers[p].row, checkers[p].col>>] = p

\* C18. Grid/piece consistency: in every reachable state each occupied
\* cell holds a piece whose stored row and col are the cell's, no piece is
\* held by two cells, and every piece that stood on the grid when the
\* executed move started and is not in its captured list is held by the
\* cell at its stored position.
C18_GridPieceConsistency ==
    /\ \A c \in Cells :
           board[c] # None => <<checkers[board[c]].row, checkers[board[c]].col>> = c
    /\ \A c \in Cells, d \in Cells : (board[c] # None /\ board[c] = board[d]) => c = d
    /\ \A p \in executed.before \ listed : held_at_stored(p)

\* C19. Continuation after a chain: when the last step of a multi-capture
\* chain is applied, the promotion is checked first; then, if
\* get_valid_moves of the landed piece contains a capture, that piece is
\* selected with exactly those capture moves and the turn is not flipped;
\* otherwise the selection is cleared and the turn flips.
C19_ChainContinuation ==
    [][chain_end
       => /\ on_farthest_row(executed.checker) => checkers'[executed.checker].is_king
          /\ IF any_values(get_valid_moves(board', checkers', executed.checker))
             THEN /\ selected' = executed.checker
                  /\ valid_moves'
                         = only_captures(get_valid_moves(board', checkers', executed.checker))
                  /\ turn' = turn
             ELSE /\ selected' = None
                  /\ turn' = other_color(turn)]_vars

\* C19's case: the last step of a chain crowned a man, and the crowned
\* piece stays selected, on its colour's turn, with a capture that only a
\* king can make.
C19_Witness ==
    /\ last.op = "on_capture_animation_done"
    /\ executed.complete
    /\ ~executed.was_king
    /\ checkers[executed.checker].is_king
    /\ selected = executed.checker
    /\ turn = checkers[executed.checker].color
    /\ any_values(valid_moves)

\* C20. Continuation after a single capture: when a move that captures
\* exactly one piece completes, the turn stays with the mover exactly when
\* the moved piece has a further capture available from its landing cell,
\* and it passes to the opponent otherwise.
C20_SingleCaptureContinuation ==
    [][(pc = "_on_single_move_complete" /\ Len(executed.captured) = 1)
       => IF capture_available(board', checkers', executed.checker)
          THEN turn' = turn
          ELSE turn' = other_color(turn)]_vars

\* The last call was get_move.
ai_called == result.op = "get_move"

\* The dict has a (from, to) entry.
has_entry(move_set) == \E s \in DOMAIN move_set : DOMAIN move_set[s] # {}

\* C21. AI output: for every difficulty, get_move returns None if and only
\* if the move set has no (from, to) entry; otherwise it returns one
\* triple (from, to, captured) such that move_set[from][to] is that
\* captured list.
C21_AiOutput ==
    ai_called
    => /\ result.value.move = NoneMove <=> ~has_entry(result.value.valid_moves)
       /\ result.value.move # NoneMove
          => /\ Len(result.value.move) = 3
             /\ result.value.move[1] \in DOMAIN result.value.valid_moves
             /\ result.value.move[2] \in DOMAIN result.value.valid_moves[result.value.move[1]]
             /\ result.value.valid_moves[result.value.move[1]][result.value.move[2]]
                    = result.value.move[3]

\* C21's cases: get_move returned None for a dict that has a piece and no
\* entry, and it returned a capture.
C21_WitnessNone ==
    /\ ai_called
    /\ result.value.valid_moves # EmptyDict
    /\ result.value.move = NoneMove

C21_Witness ==
    /\ ai_called
    /\ result.value.move # NoneMove
    /\ result.value.move[3] # << >>

\* The (from, to, captured) entries of a move set.
entries(move_set) ==
    UNION {{<<s, e, move_set[s][e]>> : e \in DOMAIN move_set[s]} : s \in DOMAIN move_set}

\* The entries whose captured list is as long as any entry's.
maximal(move_set) ==
    {m \in entries(move_set) : \A n \in entries(move_set) : Len(n[3]) <= Len(m[3])}

\* Some entry of the move set captures.
captures_in(move_set) == \E m \in entries(move_set) : m[3] # << >>

\* C22. AI capture maximisation: at Medium and at Hard, whenever the move
\* set has an entry that captures, the returned move's captured list has
\* the maximum length over all entries; at Medium the moves that can be
\* returned are all the maximal entries then, and all the entries when no
\* entry captures.
C22_AiCaptureMaximisation ==
    (ai_called /\ has_entry(result.value.valid_moves))
    => /\ (/\ result.value.difficulty \in {DIFFICULTY_MEDIUM, DIFFICULTY_HARD}
           /\ captures_in(result.value.valid_moves))
          => result.value.move \in maximal(result.value.valid_moves)
       /\ result.value.difficulty = DIFFICULTY_MEDIUM
          => result.value.choices
                 = IF captures_in(result.value.valid_moves)
                   THEN maximal(result.value.valid_moves)
                   ELSE entries(result.value.valid_moves)

\* C22's case: Medium returned a longest capture from a move set that also
\* holds a shorter capture and a second longest one.
C22_Witness ==
    /\ ai_called
    /\ result.value.difficulty = DIFFICULTY_MEDIUM
    /\ \E m \in entries(result.value.valid_moves) :
           m[3] # << >> /\ Len(m[3]) < Len(result.value.move[3])
    /\ Cardinality(result.value.choices) > 1

\* The entry m of a move set is made by a piece that is not a king and
\* lands on the farthest row for the piece's colour.
promoting(m) ==
    /\ board[m[1]] # None
    /\ ~checkers[board[m[1]]].is_king
    /\ m[2][1] = farthest_row(checkers[board[m[1]]].color)

\* C23. AI Hard promoting capture: at Hard, when some entry captures, the
\* returned move is a maximal-capture entry, and it is one made by a
\* non-king piece that lands on the farthest row for its colour if the
\* maximal-capture entries hold such an entry.
C23_AiHardPromotingCapture ==
    (/\ ai_called
     /\ result.value.difficulty = DIFFICULTY_HARD
     /\ captures_in(result.value.valid_moves))
    => /\ result.value.move \in maximal(result.value.valid_moves)
       /\ (\E m \in maximal(result.value.valid_moves) : promoting(m))
          => promoting(result.value.move)

\* C23's case: Hard returned a promoting capture from a move set that also
\* holds a capture of the same length that does not promote.
C23_Witness ==
    /\ ai_called
    /\ result.value.difficulty = DIFFICULTY_HARD
    /\ captures_in(result.value.valid_moves)
    /\ promoting(result.value.move)
    /\ \E m \in maximal(result.value.valid_moves) : ~promoting(m)

\* C24. AI Hard promoting quiet move: at Hard, when no entry of the move
\* set captures and exactly one entry lands a man on its promotion row,
\* get_move returns that entry, for every random choice.
C24_AiHardPromotingQuiet ==
    (/\ ai_called
     /\ result.value.difficulty = DIFFICULTY_HARD
     /\ ~captures_in(result.value.valid_moves)
     /\ Cardinality({m \in entries(result.value.valid_moves) : promoting(m)}) = 1)
    => promoting(result.value.move)

has_piece(color) == \E c \in Cells : board[c] # None /\ checkers[board[c]].color = color

\* C26. Board.winner: winner() returns None if and only if both colours
\* have at least one piece on the grid; if exactly one colour has no piece
\* it returns the other colour.
C26_BoardWinner ==
    result.op = "winner"
    => /\ result.value = NoColor <=> (has_piece("white") /\ has_piece("black"))
       /\ (has_piece("white") /\ ~has_piece("black")) => result.value = "white"
       /\ (has_piece("black") /\ ~has_piece("white")) => result.value = "black"

\* C26's case: winner() was called on a board that holds white pieces
\* only.
C26_Witness ==
    /\ result.op = "winner"
    /\ has_piece("white")
    /\ ~has_piece("black")

\* get_valid_moves of the piece p of the current board in an interpreter
\* whose skipped defaults are the empty lists the def statements made.
fresh_moves(p) ==
    captures_or_regular(scan_captures_from(board, checkers, p, NoSkipped), board, checkers, p)

beyond(from, q) == <<2 * checkers[q].row - from[1], 2 * checkers[q].col - from[2]>>

\* The chain step st is about to be applied: if it carries a captured
\* piece, that piece is a diagonal neighbour of the step's start and the
\* step ends on the cell beyond it; and the cell it ends on holds no
\* other piece.
step_square(st) ==
    /\ st.captured # << >>
       => /\ checkers[st.captured[1]].row - st.from_pos[1] \in {-1, 1}
          /\ checkers[st.captured[1]].col - st.from_pos[2] \in {-1, 1}
          /\ st.to_pos = beyond(st.from_pos, st.captured[1])
          /\ board[st.to_pos] = None
    /\ board[st.to_pos] \in {None, st.checker}

\* C28. Chain step squares: every step produced by _split_multi_capture
\* that carries a captured piece moves the capturing piece to the cell one
\* diagonal step beyond that piece along the line of travel, and that cell
\* is empty when the step is applied; no chain step places the piece on a
\* cell occupied by another piece.
C28_ChainStepSquares ==
    [][/\ (multi_capture = << >> /\ multi_capture' # << >>) => step_square(multi_capture'[1])
       /\ mid_chain => step_square(multi_capture[current_capture_index + 2])]_vars

\* The pieces of the colour among the pieces ps.
of_color(ps, color) == {p \in ps : checkers[p].color = color}

\* C29. A move never costs the mover a piece: once an accepted move,
\* single or chained, has been executed, the mover's colour has as many
\* pieces on the grid as when the move started, and every piece that left
\* the grid is in the captured list of the executed move.
C29_MoverKeepsPieces ==
    executed.complete
    => /\ Cardinality(of_color(on_grid(board), checkers[executed.checker].color))
              = Cardinality(of_color(executed.before, checkers[executed.checker].color))
       /\ \A p \in executed.before : p \notin on_grid(board) => p \in listed

\* The number of rows between the pieces p and q.
rows_apart(p, q) ==
    IF checkers[q].row > checkers[p].row
    THEN checkers[q].row - checkers[p].row
    ELSE checkers[p].row - checkers[q].row

\* C30. Capture order: for every multi-capture entry of get_valid_moves,
\* the captured list is in the order in which the pieces are jumped along
\* the path: the first piece stands in the row next to the moving piece's,
\* and each piece is farther from the moving piece than the piece before
\* it in the list.
C30_CaptureOrder ==
    result.op = "get_valid_moves"
    => \A d \in DOMAIN result.value :
           Len(result.value[d]) > 1
           => /\ rows_apart(result.checker, result.value[d][1]) = 1
              /\ \A i \in 1 .. Len(result.value[d]) - 1 :
                     rows_apart(result.checker, result.value[d][i])
                         < rows_apart(result.checker, result.value[d][i + 1])

\* A chain has ended with the landed piece still able to capture: the
\* piece is selected and its colour is still to move.
continuing ==
    /\ pc = "idle"
    /\ ~game_over
    /\ executed.complete
    /\ Len(executed.captured) > 1
    /\ selected = executed.checker
    /\ turn = checkers[executed.checker].color
    /\ any_values(valid_moves)

\* C31. Forced continuation binds the same piece: after a chain ends with
\* the landed piece still able to capture, a select on another piece of
\* the same colour does not make that piece the selection, and a move
\* that starts while the turn has not flipped is made by the landed piece.
C31_ContinuationSamePiece ==
    [][continuing
       => /\ (/\ last'.op = "select"
              /\ last'.target # None
              /\ last'.target # executed.checker
              /\ checkers[last'.target].color = turn)
             => selected' # last'.target
          /\ (moves' > moves /\ turn' = turn) => executed'.checker = executed.checker]_vars


\* The step `move` of a chain has just been applied: its captured pieces
\* are off the grid and the capturing piece stands on the step's to_pos.
applied(move) ==
    /\ board'[move.to_pos] = move.checker
    /\ <<checkers'[move.checker].row, checkers'[move.checker].col>> = move.to_pos
    /\ \A i \in 1 .. Len(move.captured) :
           move.captured[i] # None => move.captured[i] \notin on_grid(board')

\* C32. Chain progress: a step that starts a multi-capture sets
\* current_capture_index to 0 and applies the first step of the list;
\* while the chain lasts only the driver acts; each invocation of the
\* driver before the last raises current_capture_index by exactly one,
\* leaves the list alone and applies the step at the new index; the last
\* invocation applies no step and leaves multi_capture empty and
\* current_capture_index 0; and every chain that has started reaches that
\* end.
C32_ChainProgress ==
    /\ [][/\ (multi_capture = << >> /\ multi_capture' # << >>)
             => /\ current_capture_index' = 0
                /\ pc' = "on_capture_animation_done"
                /\ applied(multi_capture'[1])
          /\ multi_capture # << >>
             => /\ pc = "on_capture_animation_done"
                /\ last'.op = "on_capture_animation_done"
          /\ mid_chain
             => /\ current_capture_index' = current_capture_index + 1
                /\ multi_capture' = multi_capture
                /\ applied(multi_capture[current_capture_index + 2])
          /\ chain_end
             => /\ multi_capture' = << >>
                /\ current_capture_index' = 0
                /\ board' = board]_vars
    /\ (multi_capture # << >>) ~> (multi_capture = << >> /\ current_capture_index = 0)

\* A chain of three steps has been driven to its end.
C32_Witness ==
    /\ last.op = "on_capture_animation_done"
    /\ executed.complete
    /\ Len(executed.captured) > 1
    /\ multi_capture = << >>
    /\ current_capture_index = 0


\* C33. No stuck live game: in every state between commands in which the
\* game is not over, the side to move has at least one legal move and both
\* colours have at least one piece on the grid.
C33_NoStuckLiveGame ==
    (pc = "idle" /\ ~game_over)
        => /\ get_all_valid_moves(board, checkers, turn) # EmptyDict
           /\ has_piece("white")
           /\ has_piece("black")


\* A move has been completed, the turn has passed to the other side and
\* the game goes on.
C33_Witness ==
    /\ pc = "idle"
    /\ ~game_over
    /\ executed.complete
    /\ last.op \in {"on_capture_animation_done", "_on_single_move_complete"}
    /\ turn # checkers[executed.checker].color
    /\ get_all_valid_moves(board, checkers, turn) # EmptyDict


\* The entry of the selected piece in the move map of the side to move,
\* empty when it has none.
entry_of(all_moves, p) ==
    IF <<checkers[p].row, checkers[p].col>> \in DOMAIN all_moves
    THEN all_moves[<<checkers[p].row, checkers[p].col>>]
    ELSE EmptyDict

\* C34. Selection invariant: in every state between commands, a selected
\* piece has the colour of the side to move, is held by the grid cell at
\* its stored position, and valid_moves is its entry in
\* get_all_valid_moves(turn), or empty when it has no entry; with no piece
\* selected valid_moves is empty.
C34_SelectionInvariant ==
    pc = "idle"
        => IF selected # None
           THEN /\ checkers[selected].color = turn
                /\ held_at_stored(selected)
                /\ valid_moves = entry_of(get_all_valid_moves(board, checkers, turn), selected)
           ELSE valid_moves = EmptyDict


\* A select has made a piece the selection, with its moves.
C34_Witness ==
    /\ pc = "idle"
    /\ last.op = "select"
    /\ last.ret
    /\ selected # None
    /\ valid_moves # EmptyDict
    /\ valid_moves = entry_of(get_all_valid_moves(board, checkers, turn), selected)


\* The captured list has no piece twice.
no_repeats(captured) ==
    \A i, j \in 1 .. Len(captured) : captured[i] = captured[j] => i = j

\* C35. Well-formed move maps: every destination key of the map returned
\* by get_valid_moves is an on-board cell that is empty in the board of
\* the call, and every piece of a captured list is of the colour opposed
\* to the moving piece's, is on the grid, and is in the list once.
C35_WellFormedMoves ==
    result.op = "get_valid_moves"
    => \A d \in DOMAIN result.value :
           /\ d \in Cells
           /\ board[d] = None
           /\ no_repeats(result.value[d])
           /\ \A i \in 1 .. Len(result.value[d]) :
                  /\ result.value[d][i] \in on_grid(board)
                  /\ checkers[result.value[d][i]].color
                         = other_color(checkers[result.checker].color)

\* get_valid_moves has returned a map with a capture of two pieces and
\* another destination.
C35_Witness ==
    /\ result.op = "get_valid_moves"
    /\ Cardinality(DOMAIN result.value) > 1
    /\ \E d \in DOMAIN result.value : Len(result.value[d]) > 1


\* C36. The two move generators agree: for every piece of every board,
\* Board.get_valid_moves returns the map of destinations to captured lists
\* that Game.get_valid_moves returns, and every grid index it reads has its
\* row and its column in 0..7.
C36_GeneratorsAgree ==
    result.op = "Board.get_valid_moves"
    => /\ result.value.moves = get_valid_moves(board, checkers, result.checker)
       /\ result.value.reads \subseteq Cells

\* Board.get_valid_moves has returned a capture of two pieces for a piece
\* that stands on a row or column at the edge of the board.
C36_Witness ==
    /\ result.op = "Board.get_valid_moves"
    /\ \E d \in DOMAIN result.value.moves : Len(result.value.moves[d]) > 1
    /\ \/ checkers[result.checker].row \in {0, rows - 1}
       \/ checkers[result.checker].col \in {0, cols - 1}

====
